---- MODULE Spec2Model ----
(***************************************************************************)
(* Model of the Xiaomi vacuum cleaner Telegram bot: the conversation       *)
(* (main.py: XVCBot and the ConversationHandler built in main) and the     *)
(* device adapter (xvc_helper.py: XVCHelper).                               *)
(*                                                                         *)
(* Texts are sequences of characters, so that str.title() and str.upper()  *)
(* are computed and not assumed.  The dispatcher thread of the Updater     *)
(* takes one update at a time; a handler that calls the device is split at *)
(* each round trip to the device (the command is sent, then the answer     *)
(* arrives), which is where another thread could interleave.               *)
(***************************************************************************)
EXTENDS Integers, Sequences, FiniteSets, TLC

VARIABLES
    adapter,     \* "constructing" | "ready" | "failed": XVCHelper.__init__
    discovers,   \* outcomes of the do_discover() attempts made by __init__
    conv,        \* ConversationHandler.conversations: user -> state
    job,         \* user -> the handler invocation in progress (or idle)
    trace,       \* the commands delivered to the device by the latest adapter call
    lastTurn,    \* the update handled last: its reply and its adapter operations
    fanSetBy     \* the user whose session set the fan speed the device holds (0: none)

vars == <<adapter, discovers, conv, job, trace, lastTurn, fanSetBy>>

-----------------------------------------------------------------------------
(* Bounds of the model *)

\* number of identities outside LIST_OF_ADMINS that write to the bot
NumStrangers == 1

-----------------------------------------------------------------------------
(* Characters and the str methods used by main.py *)

LowerCase == <<"a","b","c","d","e","f","g","h","i","j","k","l","m",
               "n","o","p","q","r","s","t","u","v","w","x","y","z">>
UpperCase == <<"A","B","C","D","E","F","G","H","I","J","K","L","M",
               "N","O","P","Q","R","S","T","U","V","W","X","Y","Z">>

IsLower(c) == \E i \in 1..26 : LowerCase[i] = c
IsUpper(c) == \E i \in 1..26 : UpperCase[i] = c
IsCased(c) == IsLower(c) \/ IsUpper(c)

upperChar(c) ==
    IF IsLower(c) THEN UpperCase[CHOOSE i \in 1..26 : LowerCase[i] = c] ELSE c
lowerChar(c) ==
    IF IsUpper(c) THEN LowerCase[CHOOSE i \in 1..26 : UpperCase[i] = c] ELSE c

\* str.upper()
upper(s) == [i \in 1..Len(s) |-> upperChar(s[i])]

\* str.title(): a cased character is upper-cased when it follows an uncased
\* character (or starts the string) and lower-cased otherwise
title(s) ==
    [i \in 1..Len(s) |->
        IF i > 1 /\ IsCased(s[i-1]) THEN lowerChar(s[i]) ELSE upperChar(s[i])]

DigitChars == <<"0","1","2","3","4","5","6","7","8","9">>

\* '{}'.format(n) for a non-negative integer n
RECURSIVE Digits(_)
Digits(n) ==
    IF n < 10 THEN <<DigitChars[n + 1]>>
    ELSE Append(Digits(n \div 10), DigitChars[(n % 10) + 1])

-----------------------------------------------------------------------------
(* Constants of main.py *)

Status       == <<"S","t","a","t","u","s">>
Home         == <<"H","o","m","e">>
ZoneCleaning == <<"Z","o","n","e","C","l","e","a","n","i","n","g">>
MAIN_BUTTONS == <<Status, Home, ZoneCleaning>>

Quiet    == <<"Q","u","i","e","t">>
Balanced == <<"B","a","l","a","n","c","e","d">>
Turbo    == <<"T","u","r","b","o">>
Max      == <<"M","a","x">>
Mob      == <<"M","o","b">>

\* the FanLevel enumeration: name -> value
FanLevel ==
    (Quiet :> 38) @@ (Balanced :> 60) @@ (Turbo :> 75) @@ (Max :> 100) @@ (Mob :> 105)

FAN_BUTTONS == <<Quiet, Balanced, Turbo, Max, Mob>>

MAIN_MENU   == "MAIN_MENU"
SELECT_FAN  == "SELECT_FAN"
SELECT_ZONE == "SELECT_ZONE"
\* ConversationHandler.END: the conversation is removed from the dictionary;
\* NoConv stands for "no entry for this user"
END    == "END"
NoConv == "none"

LIST_OF_ADMINS == <<110086856, 829623593>>
Admins    == {LIST_OF_ADMINS[i] : i \in 1..Len(LIST_OF_ADMINS)}
Strangers == 1..NumStrangers
Users     == Admins \cup Strangers

StartCommand  == <<"/","s","t","a","r","t">>
CancelCommand == <<"/","c","a","n","c","e","l">>

\* the zone dictionary handed to XVCBot: name of the zone as configured ->
\* list of rectangles; the names are whatever the configuration spells, here
\* one in capitals and one as a display name
zones ==
    (<<"H","A","L","L">> :> << <<10, 10, 20, 20>> >>) @@
    (<<"B","e","d"," ","R","o","o","m">> :> << <<30, 10, 40, 20>>, <<30, 20, 35, 30>> >>)

ZoneKeys   == DOMAIN zones
\* [zone.title() for zone in zones.keys()]: the labels of the zone menu and
\* the alternatives of the SELECT_ZONE pattern
ZoneLabels == {title(k) : k \in ZoneKeys}

\* a text that is on no menu
OtherText == <<"h","i">>

Texts ==
    {StartCommand, CancelCommand, Status, Home, ZoneCleaning, OtherText}
    \cup {FAN_BUTTONS[i] : i \in 1..Len(FAN_BUTTONS)}
    \cup ZoneLabels

-----------------------------------------------------------------------------
(* The device adapter: xvc_helper.py, class XVCHelper *)

RESPONSE_SUCCEEDED == "ok"
DeviceException    == "DeviceException"

\* what one call of the device library yields: the acknowledgement of the
\* device ("ok", or anything else, here "error"), or DeviceException (the
\* library raises it on a timeout, on a transport or on a protocol fault)
Answers       == {"ok", "error", DeviceException}
\* status() yields a status object (here "ok", with its state text) or raises
StatusAnswers == {"ok", DeviceException}
StatusStates  == {<<"C","h","a","r","g","i","n","g">>}
NoState       == <<"N","o","n","e">>

\* the outcome of a method: it returns a value or an exception leaves it
Returned(v) == [raised |-> FALSE, value |-> v]
Raised      == [raised |-> TRUE, value |-> FALSE]

\* range(3) of the connection check
DiscoverAttempts == 3

\* the loop without its break: a successful attempt is followed by the next
discover_step_no_break(made, answer) ==
    IF made + 1 < DiscoverAttempts THEN "constructing"
    ELSE IF answer # DeviceException THEN "ready"
    ELSE "failed"

\* one pass of the loop of __init__ after `made` earlier attempts, the
\* attempt answering `answer`: break, continue, or the else branch
discover_step(made, answer) ==
    IF answer # DeviceException THEN "ready"
    ELSE IF made + 1 = DiscoverAttempts THEN "failed"
    ELSE "constructing"

\* status(): the only method with a try/except around the device call
XVCHelper_status(answer, state) ==
    IF answer = DeviceException
    THEN [raised |-> FALSE, value |-> FALSE, state |-> NoState]
    ELSE [raised |-> FALSE, value |-> TRUE, state |-> state]

\* pause() raising on every acknowledgement but the success token
XVCHelper_pause_strict(answer) ==
    IF answer = RESPONSE_SUCCEEDED THEN Returned(TRUE) ELSE Raised

XVCHelper_pause(answer) ==
    IF answer = DeviceException THEN Raised
    ELSE Returned(answer = RESPONSE_SUCCEEDED)

XVCHelper_home(answer) ==
    IF answer = DeviceException THEN Raised
    ELSE Returned(answer = RESPONSE_SUCCEEDED)

\* set_fan_level() sending the position of the level instead of its value
set_fan_speed_param_ordinal(level) ==
    CHOOSE i \in 1..Len(FAN_BUTTONS) : FAN_BUTTONS[i] = level

\* the parameter of set_fan_speed: FanLevel[level] of select_zone() and
\* fan_level.value of set_fan_level()
set_fan_speed_param(level) == FanLevel[level]

XVCHelper_set_fan_level(answer) ==
    IF answer = DeviceException THEN Raised
    ELSE Returned(answer = RESPONSE_SUCCEEDED)

\* the second half of start_zone_cleaning(): the answer to zoned_clean
XVCHelper_start_zone_cleaning(answer) ==
    IF answer = DeviceException THEN Raised
    ELSE Returned(answer = RESPONSE_SUCCEEDED)

\* zone.get_list(): the rectangle as the list the device takes
get_list(zone) == zone
\* zones_list = [zone.get_list() for zone in zones]
zones_list(zs) == [i \in 1..Len(zs) |-> get_list(zs[i])]

\* start_zone_cleaning() without its self.pause()
start_zone_cleaning_no_pause == <<"zoned_clean">>

\* the commands start_zone_cleaning() sends, in order
start_zone_cleaning_commands == <<"pause", "zoned_clean">>

-----------------------------------------------------------------------------
(* The conversation: main.py, XVCBot and the ConversationHandler of main *)

Reply(fmt, args) == [fmt |-> fmt, args |-> args]
NoReply == Reply("", <<>>)

\* the decorator letting everybody through
restricted_open(user_id) == TRUE

\* the decorator: may this identity call the wrapped handler
restricted(user_id) == user_id \in Admins

InSeq(x, s) == \E i \in 1..Len(s) : s[i] = x

\* a Status handler that is registered for every state of the conversation
check_update_status_anywhere(state, text) ==
    IF state = NoConv
    THEN (IF text = StartCommand THEN "start" ELSE "none")
    ELSE IF text = Status THEN "status"
    ELSE IF state = MAIN_MENU /\ text = Home THEN "home"
    ELSE IF state = MAIN_MENU /\ text = ZoneCleaning THEN "select_fan"
    ELSE IF state = SELECT_FAN /\ InSeq(text, FAN_BUTTONS) THEN "select_zone"
    ELSE IF state = SELECT_ZONE /\ text \in ZoneLabels THEN "cleaning"
    ELSE IF text = CancelCommand THEN "cancel"
    ELSE "none"

\* a conversation with allow_reentry: the entry point is tried in every state
check_update_reentry(state, text) ==
    IF text = StartCommand THEN "start"
    ELSE IF state = NoConv THEN "none"
    ELSE IF state = MAIN_MENU /\ text = Status THEN "status"
    ELSE IF state = MAIN_MENU /\ text = Home THEN "home"
    ELSE IF state = MAIN_MENU /\ text = ZoneCleaning THEN "select_fan"
    ELSE IF state = SELECT_FAN /\ InSeq(text, FAN_BUTTONS) THEN "select_zone"
    ELSE IF state = SELECT_ZONE /\ text \in ZoneLabels THEN "cleaning"
    ELSE IF text = CancelCommand THEN "cancel"
    ELSE "none"

\* ConversationHandler.check_update: with no conversation only the entry
\* point is tried, else the handlers of the state and then the fallbacks
check_update(state, text) ==
    IF state = NoConv
    THEN (IF text = StartCommand THEN "start" ELSE "none")
    ELSE IF state = MAIN_MENU /\ text = Status THEN "status"
    ELSE IF state = MAIN_MENU /\ text = Home THEN "home"
    ELSE IF state = MAIN_MENU /\ text = ZoneCleaning THEN "select_fan"
    ELSE IF state = SELECT_FAN /\ InSeq(text, FAN_BUTTONS) THEN "select_zone"
    ELSE IF state = SELECT_ZONE /\ text \in ZoneLabels THEN "cleaning"
    ELSE IF text = CancelCommand THEN "cancel"
    ELSE "none"

\* ConversationHandler.update_state
update_state(c, u, new_state) ==
    IF new_state = END THEN [c EXCEPT ![u] = NoConv]
    ELSE IF new_state = "None" THEN c
    ELSE [c EXCEPT ![u] = new_state]

\* XVCBot.__finish
finish(message) == [reply |-> message, markup |-> "remove", next |-> END]

XVCBot_start(u) ==
    IF ~restricted(u)
    THEN [reply |-> Reply("Access denied for you ({})!", <<Digits(u)>>),
          markup |-> "none", next |-> "None"]
    ELSE [reply |-> Reply("Main menu", <<>>),
          markup |-> "main_buttons", next |-> MAIN_MENU]

XVCBot_status(r) ==
    finish(IF r.value THEN Reply("State: {}", <<r.state>>) ELSE Reply("Error", <<>>))

XVCBot_home(r) ==
    finish(IF r.value THEN Reply("Vacuum cleaner goes back to the dock...", <<>>)
           ELSE Reply("Error", <<>>))

XVCBot_select_fan ==
    [reply |-> Reply("Select fan speed!", <<>>),
     markup |-> "fan_buttons", next |-> SELECT_FAN]

\* select_zone() returning to the main menu
XVCBot_select_zone_back(r) ==
    [reply |-> Reply("Select zone!", <<>>),
     markup |-> "zone_buttons", next |-> MAIN_MENU]

\* the result of set_fan_level is not looked at
XVCBot_select_zone(r) ==
    [reply |-> Reply("Select zone!", <<>>),
     markup |-> "zone_buttons", next |-> SELECT_ZONE]

XVCBot_cleaning(r, zone) ==
    finish(IF r.value THEN Reply("Start cleaning {}...", <<zone>>)
           ELSE Reply("Error", <<>>))

\* cancel() answering without __finish
XVCBot_cancel_no_finish ==
    [reply |-> Reply("Canceled...", <<>>), markup |-> "none", next |-> "None"]

XVCBot_cancel == finish(Reply("Canceled...", <<>>))

\* error() answering without the main menu
XVCBot_error_no_menu(text, message) ==
    [reply |-> Reply("Update \"{}\" caused error \"{}\"!", <<text, message>>),
     markup |-> "none"]

\* XVCBot.error
XVCBot_error(text, message) ==
    [reply |-> Reply("Update \"{}\" caused error \"{}\"!", <<text, message>>),
     markup |-> "main_buttons"]

-----------------------------------------------------------------------------
(* State *)

Idle == [handler |-> "idle", text |-> <<>>, cmd |-> "none", arg |-> <<>>, ops |-> <<>>]
Busy(u) == job[u].handler # "idle"

NoTurn == [user |-> 0, text |-> <<>>, handler |-> "none", raised |-> FALSE,
           reply |-> NoReply, markup |-> "none", ops |-> <<>>]

Init ==
    /\ adapter = "constructing"
    /\ discovers = <<>>
    /\ conv = [u \in Users |-> NoConv]
    /\ job = [u \in Users |-> Idle]
    /\ trace = <<>>
    /\ lastTurn = NoTurn
    /\ fanSetBy = 0

\* handlers run asynchronously: only the updates of one user are in sequence
DispatcherFree_async(u) == ~Busy(u)

\* the dispatcher thread handles one update to its end before it takes the
\* next one from the queue (no handler is run asynchronously)
DispatcherFree(u) == \A v \in Users : ~Busy(v)

\* the dispatcher may take an update of user u with this text
Takes(u, text, handler) ==
    /\ adapter = "ready"
    /\ DispatcherFree(u)
    /\ check_update(conv[u], text) = handler

\* an adapter method finished: what the device answered and what came of it
Op(op, answer, r) ==
    [op |-> op, answer |-> answer, raised |-> r.raised, value |-> r.value]

\* the one device keeps the fan speed of the last set_fan_speed it
\* acknowledged, whichever session sent it; the session that set it is
\* forgotten when it ends
DeviceFan(u, ops, next) ==
    IF ops # <<>> /\ ops[Len(ops)].op = "set_fan_level" /\ ops[Len(ops)].answer = "ok"
    THEN u
    ELSE IF next = END /\ fanSetBy = u THEN 0 ELSE fanSetBy

\* a handler returned: the reply is sent and update_state stores the state
Complete(u, text, handler, ops, out) ==
    /\ conv' = update_state(conv, u, out.next)
    /\ fanSetBy' = DeviceFan(u, ops, out.next)
    /\ job' = [job EXCEPT ![u] = Idle]
    /\ lastTurn' = [user |-> u, text |-> text, handler |-> handler, raised |-> FALSE,
                    reply |-> out.reply, markup |-> out.markup, ops |-> ops]

ErrorText    == <<"D","e","v","i","c","e","E","x","c","e","p","t","i","o","n">>
KeyErrorText == <<"K","e","y","E","r","r","o","r">>

\* an exception left the handler: update_state is not reached; the
\* dispatcher logs it and, depending on the release of the library, calls
\* the error handler (notified) or not
Abort(u, text, handler, ops, message, notified) ==
    /\ conv' = conv
    /\ fanSetBy' = fanSetBy
    /\ job' = [job EXCEPT ![u] = Idle]
    /\ lastTurn' = [user |-> u, text |-> text, handler |-> handler, raised |-> TRUE,
                    reply |-> IF notified THEN XVCBot_error(text, message).reply
                              ELSE NoReply,
                    markup |-> IF notified THEN XVCBot_error(text, message).markup
                               ELSE "none",
                    ops |-> ops]

\* a handler calls an adapter method, which sends its first command to the
\* device and waits for the answer
Call(u, text, handler, cmd, arg) ==
    /\ trace' = <<[cmd |-> cmd, user |-> u]>>
    /\ fanSetBy' = fanSetBy
    /\ job' = [job EXCEPT ![u] = [handler |-> handler, text |-> text,
                                  cmd |-> cmd, arg |-> arg, ops |-> <<>>]]

\* the adapter method in progress sends its next command
SendNext(u, cmd, ops) ==
    /\ trace' = Append(trace, [cmd |-> cmd, user |-> u])
    /\ fanSetBy' = fanSetBy
    /\ job' = [job EXCEPT ![u].cmd = cmd, ![u].ops = ops]

-----------------------------------------------------------------------------
(* Construction of the adapter *)

Discover ==
    /\ adapter = "constructing"
    /\ \E answer \in {"ok", DeviceException} :
        /\ discovers' = Append(discovers, answer)
        /\ adapter' = discover_step(Len(discovers), answer)
    /\ UNCHANGED <<conv, job, trace, lastTurn, fanSetBy>>

-----------------------------------------------------------------------------
(* Updates handled without the device *)

Start ==
    \E u \in Users :
        /\ Takes(u, StartCommand, "start")
        /\ Complete(u, StartCommand, "start", <<>>, XVCBot_start(u))
        /\ UNCHANGED <<adapter, discovers, trace>>

SelectFan ==
    \E u \in Users :
        /\ Takes(u, ZoneCleaning, "select_fan")
        /\ Complete(u, ZoneCleaning, "select_fan", <<>>, XVCBot_select_fan)
        /\ UNCHANGED <<adapter, discovers, trace>>

Cancel ==
    \E u \in Users :
        /\ Takes(u, CancelCommand, "cancel")
        /\ Complete(u, CancelCommand, "cancel", <<>>, XVCBot_cancel)
        /\ UNCHANGED <<adapter, discovers, trace>>

\* no handler of the conversation takes the update
Unmatched ==
    \E u \in Users, text \in Texts :
        /\ Takes(u, text, "none")
        /\ lastTurn' = [NoTurn EXCEPT !.user = u, !.text = text]
        /\ UNCHANGED <<adapter, discovers, conv, job, trace, fanSetBy>>

-----------------------------------------------------------------------------
(* Updates handled with the device *)

StatusCall ==
    \E u \in Users :
        /\ Takes(u, Status, "status")
        /\ Call(u, Status, "status", "status", <<>>)
        /\ UNCHANGED <<adapter, discovers, conv, lastTurn>>

StatusReturn ==
    \E u \in Users, answer \in StatusAnswers, state \in StatusStates :
        /\ job[u].handler = "status"
        /\ LET r == XVCHelper_status(answer, state) IN
            Complete(u, job[u].text, "status", <<Op("status", answer, r)>>,
                     XVCBot_status(r))
        /\ UNCHANGED <<adapter, discovers, trace>>

HomeCall ==
    \E u \in Users :
        /\ Takes(u, Home, "home")
        /\ Call(u, Home, "home", "home", <<>>)
        /\ UNCHANGED <<adapter, discovers, conv, lastTurn>>

HomeReturn ==
    \E u \in Users, answer \in Answers, notified \in BOOLEAN :
        /\ job[u].handler = "home"
        /\ LET r   == XVCHelper_home(answer)
               ops == <<Op("home", answer, r)>>
           IN  IF r.raised
               THEN Abort(u, job[u].text, "home", ops, ErrorText, notified)
               ELSE notified /\ Complete(u, job[u].text, "home", ops, XVCBot_home(r))
        /\ UNCHANGED <<adapter, discovers, trace>>

SelectZoneCall ==
    \E u \in Users, level \in DOMAIN FanLevel :
        /\ Takes(u, level, "select_zone")
        /\ Call(u, level, "select_zone", "set_fan_speed",
                << <<set_fan_speed_param(level)>> >>)
        /\ UNCHANGED <<adapter, discovers, conv, lastTurn>>

SelectZoneReturn ==
    \E u \in Users, answer \in Answers, notified \in BOOLEAN :
        /\ job[u].handler = "select_zone"
        /\ LET r   == XVCHelper_set_fan_level(answer)
               ops == <<Op("set_fan_level", answer, r)>>
           IN  IF r.raised
               THEN Abort(u, job[u].text, "select_zone", ops, ErrorText, notified)
               ELSE notified /\ Complete(u, job[u].text, "select_zone", ops,
                                         XVCBot_select_zone(r))
        /\ UNCHANGED <<adapter, discovers, trace>>

\* cleaning(): self.__zones[zone.upper()] is evaluated first (KeyError when
\* the key is missing), then start_zone_cleaning sends its first command
CleaningCall ==
    \E u \in Users, zone \in ZoneLabels, notified \in BOOLEAN :
        /\ Takes(u, zone, "cleaning")
        /\ IF upper(zone) \in DOMAIN zones
           THEN /\ notified
                /\ Call(u, zone, "cleaning", start_zone_cleaning_commands[1],
                        zones_list(zones[upper(zone)]))
                /\ UNCHANGED <<conv, lastTurn>>
           ELSE /\ Abort(u, zone, "cleaning", <<>>, KeyErrorText, notified)
                /\ UNCHANGED trace
        /\ UNCHANGED <<adapter, discovers>>

\* self.pause() inside start_zone_cleaning: its value is dropped, then the
\* zoned clean is sent
PauseReturn ==
    \E u \in Users, answer \in Answers, notified \in BOOLEAN :
        /\ job[u].handler = "cleaning"
        /\ job[u].cmd = "pause"
        /\ LET r   == XVCHelper_pause(answer)
               ops == <<Op("pause", answer, r)>>
           IN  IF r.raised
               THEN /\ Abort(u, job[u].text, "cleaning", ops, ErrorText, notified)
                    /\ UNCHANGED trace
               ELSE /\ notified
                    /\ SendNext(u, start_zone_cleaning_commands[2], ops)
                    /\ UNCHANGED <<conv, lastTurn>>
        /\ UNCHANGED <<adapter, discovers>>

ZonedCleanReturn ==
    \E u \in Users, answer \in Answers, notified \in BOOLEAN :
        /\ job[u].handler = "cleaning"
        /\ job[u].cmd = "zoned_clean"
        /\ LET r   == XVCHelper_start_zone_cleaning(answer)
               ops == Append(job[u].ops, Op("start_zone_cleaning", answer, r))
           IN  IF r.raised
               THEN Abort(u, job[u].text, "cleaning", ops, ErrorText, notified)
               ELSE notified /\ Complete(u, job[u].text, "cleaning", ops,
                                         XVCBot_cleaning(r, job[u].text))
        /\ UNCHANGED <<adapter, discovers, trace>>

Next ==
    \/ Discover
    \/ Start
    \/ SelectFan
    \/ Cancel
    \/ Unmatched
    \/ StatusCall
    \/ StatusReturn
    \/ HomeCall
    \/ HomeReturn
    \/ SelectZoneCall
    \/ SelectZoneReturn
    \/ CleaningCall
    \/ PauseReturn
    \/ ZonedCleanReturn

Spec == Init /\ [][Next]_vars

-----------------------------------------------------------------------------
(* The bot run against XVCHelperSimulator: its methods log and return,      *)
(* nothing is sent to a device, so a handler is one step                    *)

Simulation == <<"S","i","m","u","l","a","t","i","o","n">>

XVCHelperSimulator_status == [raised |-> FALSE, value |-> TRUE, state |-> Simulation]

XVCHelperSimulator_pause == Returned(TRUE)

\* home() of the simulator reporting a failure
XVCHelperSimulator_home_fails == Returned(FALSE)

XVCHelperSimulator_home == Returned(TRUE)

XVCHelperSimulator_start_zone_cleaning(zs) == Returned(TRUE)

XVCHelperSimulator_set_fan_level(fan_level) == Returned(TRUE)

\* XVCHelperSimulator.__init__ stores ip and token: no connection check
InitSim ==
    /\ adapter = "ready"
    /\ discovers = <<>>
    /\ conv = [u \in Users |-> NoConv]
    /\ job = [u \in Users |-> Idle]
    /\ trace = <<>>
    /\ lastTurn = NoTurn
    /\ fanSetBy = 0

SimStatus ==
    \E u \in Users :
        /\ Takes(u, Status, "status")
        /\ LET r == XVCHelperSimulator_status IN
            Complete(u, Status, "status", <<Op("status", "none", r)>>, XVCBot_status(r))
        /\ UNCHANGED <<adapter, discovers, trace>>

SimHome ==
    \E u \in Users :
        /\ Takes(u, Home, "home")
        /\ LET r == XVCHelperSimulator_home IN
            Complete(u, Home, "home", <<Op("home", "none", r)>>, XVCBot_home(r))
        /\ UNCHANGED <<adapter, discovers, trace>>

SimSelectZone ==
    \E u \in Users, level \in DOMAIN FanLevel :
        /\ Takes(u, level, "select_zone")
        /\ LET r == XVCHelperSimulator_set_fan_level(FanLevel[level]) IN
            Complete(u, level, "select_zone", <<Op("set_fan_level", "none", r)>>,
                     XVCBot_select_zone(r))
        /\ UNCHANGED <<adapter, discovers, trace>>

SimCleaning ==
    \E u \in Users, zone \in ZoneLabels, notified \in BOOLEAN :
        /\ Takes(u, zone, "cleaning")
        /\ IF upper(zone) \in DOMAIN zones
           THEN /\ notified
                /\ LET r == XVCHelperSimulator_start_zone_cleaning(zones[upper(zone)]) IN
                    Complete(u, zone, "cleaning",
                             <<Op("start_zone_cleaning", "none", r)>>,
                             XVCBot_cleaning(r, zone))
           ELSE Abort(u, zone, "cleaning", <<>>, KeyErrorText, notified)
        /\ UNCHANGED <<adapter, discovers, trace>>

NextSim ==
    \/ Start
    \/ SelectFan
    \/ Cancel
    \/ Unmatched
    \/ SimStatus
    \/ SimHome
    \/ SimSelectZone
    \/ SimCleaning

SpecSim == InitSim /\ [][NextSim]_vars

-----------------------------------------------------------------------------
(* Properties *)

NonTerminal == {MAIN_MENU, SELECT_FAN, SELECT_ZONE}
FanNames    == {Quiet, Balanced, Turbo, Max, Mob}
ErrorReply  == Reply("Error", <<>>)

\* the last turn called the adapter and the call failed: it raised, or it
\* returned False
TurnOpFailed ==
    /\ lastTurn.ops # <<>>
    /\ LET o == lastTurn.ops[Len(lastTurn.ops)] IN o.raised \/ ~o.value

\* C1: a session enters SELECT_ZONE only from SELECT_FAN, by a message naming
\* a fan level, and only when the device acknowledged set_fan_level for it
\* as successful before the zone menu was shown.
C1_ZoneMenuOnlyAfterFanApplied ==
    [][\A u \in Users :
        (conv[u] # SELECT_ZONE /\ conv'[u] = SELECT_ZONE) =>
            /\ conv[u] = SELECT_FAN
            /\ lastTurn'.user = u
            /\ lastTurn'.text \in FanNames
            /\ Len(lastTurn'.ops) = 1
            /\ lastTurn'.ops[1].op = "set_fan_level"
            /\ lastTurn'.ops[1].answer = "ok"
            /\ lastTurn'.ops[1].value]_vars

\* C2: every adapter operation returns, and returns success exactly when the
\* device answered with the success token; no exception leaves the adapter.
C2_AdapterNormalizesFaults ==
    \A i \in 1..Len(lastTurn.ops) :
        /\ ~lastTurn.ops[i].raised
        /\ lastTurn.ops[i].value <=> (lastTurn.ops[i].answer = "ok")

\* C3: when the device operation of a turn fails, the reply of the turn is
\* exactly "Error" and the session of that user is cleared.
C3_FailedCommandEndsSession ==
    TurnOpFailed =>
        /\ lastTurn.reply = ErrorReply
        /\ lastTurn.markup = "remove"
        /\ conv[lastTurn.user] = NoConv

\* C4: every zoned_clean command delivered to the device is immediately
\* preceded by a pause command of the same start_zone_cleaning call.
C4_PauseBeforeZonedClean ==
    \A i \in 1..Len(trace) :
        trace[i].cmd = "zoned_clean" =>
            /\ i > 1
            /\ trace[i-1].cmd = "pause"
            /\ trace[i-1].user = trace[i].user

\* C4 witness: a zoned_clean is on its way to the device after a pause that
\* the device did not acknowledge as successful.
C4_Witness ==
    \E u \in Users :
        /\ job[u].cmd = "zoned_clean"
        /\ job[u].ops[1].answer = "error"
        /\ trace = <<[cmd |-> "pause", user |-> u], [cmd |-> "zoned_clean", user |-> u]>>

\* C5: an identity outside the allow-list never has a session, never has a
\* handler running and never reaches the device, and its start is answered
\* with the denial carrying the identity; the start of an allow-listed
\* identity without session is answered with the main menu and leads to
\* MAIN_MENU.
C5_AccessGuard ==
    /\ \A u \in Users \ {110086856, 829623593} :
        /\ conv[u] = NoConv
        /\ ~Busy(u)
        /\ \A i \in 1..Len(trace) : trace[i].user # u
    /\ (lastTurn.user \in Users /\ lastTurn.user \notin {110086856, 829623593}) =>
        /\ lastTurn.ops = <<>>
        /\ lastTurn.text = StartCommand =>
            /\ lastTurn.reply = Reply("Access denied for you ({})!", <<Digits(lastTurn.user)>>)
            /\ lastTurn.markup = "none"
        /\ lastTurn.text # StartCommand => lastTurn.reply = NoReply
    /\ (lastTurn.user \in {110086856, 829623593} /\ lastTurn.handler = "start") =>
        /\ lastTurn.reply = Reply("Main menu", <<>>)
        /\ lastTurn.markup = "main_buttons"
        /\ conv[lastTurn.user] = MAIN_MENU

\* C5 witness: an identity outside the allow-list has sent start, after an
\* allow-listed identity opened a session.
C5_Witness ==
    /\ lastTurn.user \in Strangers
    /\ lastTurn.text = StartCommand
    /\ lastTurn.reply.fmt = "Access denied for you ({})!"
    /\ \E a \in Admins : conv[a] = SELECT_ZONE

\* C6: at most one handler is between a command and its answer, and while a
\* start_zone_cleaning call waits for the answer to its pause, the next
\* command delivered to the device is the zoned_clean of that call.
C6_DeviceCommandsSerialized ==
    [][/\ Cardinality({u \in Users : job'[u].handler # "idle"}) <= 1
       /\ \A u \in Users :
            (job[u].handler = "cleaning" /\ job[u].cmd = "pause") =>
                \/ trace' = trace
                \/ trace' = Append(trace, [cmd |-> "zoned_clean", user |-> u])]_vars

\* C6 witness: one identity's start_zone_cleaning waits for the answer to its
\* pause while another identity has a session in the main menu.
C6_Witness ==
    \E u, v \in Admins :
        /\ u # v
        /\ job[u].handler = "cleaning"
        /\ job[u].cmd = "pause"
        /\ conv[v] = MAIN_MENU

\* C7: cancel in MAIN_MENU, SELECT_FAN or SELECT_ZONE is answered with
\* "Canceled...", removes the menu, clears the session and sends nothing to
\* the device.
C7_CancelEndsSession ==
    [][(/\ lastTurn'.user \in Users
        /\ lastTurn'.text = CancelCommand
        /\ conv[lastTurn'.user] \in NonTerminal) =>
            /\ lastTurn'.reply = Reply("Canceled...", <<>>)
            /\ lastTurn'.markup = "remove"
            /\ conv'[lastTurn'.user] = NoConv
            /\ lastTurn'.ops = <<>>
            /\ trace' = trace]_vars

\* C7 witness: a session was cancelled after its fan level had been sent.
C7_Witness ==
    /\ lastTurn.text = CancelCommand
    /\ lastTurn.reply.fmt = "Canceled..."
    /\ trace = <<[cmd |-> "set_fan_speed", user |-> lastTurn.user]>>

\* the transitions the conversation defines: state and triggering text
Defined(state, text) ==
    \/ state = NoConv /\ text = StartCommand
    \/ state = MAIN_MENU /\ text \in {Status, Home, ZoneCleaning, CancelCommand}
    \/ state = SELECT_FAN /\ text \in FanNames \cup {CancelCommand}
    \/ state = SELECT_ZONE /\ text \in {title(k) : k \in DOMAIN zones} \cup {CancelCommand}

\* C8: a message that matches no transition of the state of its session
\* changes neither a session state nor the device command trace: whatever
\* changes a state or reaches the device is a message defined for the state.
C8_UnmatchedInputChangesNothing ==
    [][/\ \A u \in Users :
            conv'[u] # conv[u] =>
                lastTurn'.user = u /\ Defined(conv[u], lastTurn'.text)
       /\ trace' # trace =>
            \E u \in Users :
                /\ trace'[Len(trace')].user = u
                /\ job'[u].handler # "idle"
                /\ Defined(conv[u], job'[u].text)
       /\ (/\ lastTurn' # lastTurn
           /\ lastTurn'.user \in Users
           /\ ~Defined(conv[lastTurn'.user], lastTurn'.text)) =>
                conv' = conv /\ trace' = trace /\ job' = job]_vars

\* C8 witness: "Status" was sent in SELECT_ZONE and nothing took it.
C8_Witness ==
    /\ lastTurn.user \in Users
    /\ lastTurn.text = Status
    /\ lastTurn.handler = "none"
    /\ conv[lastTurn.user] = SELECT_ZONE

\* C9: construction fails exactly when three discovery attempts in a row
\* failed; it succeeds at the first successful attempt, nothing is attempted
\* after it, and no more than three attempts are made.
C9_ConstructionProbe ==
    /\ Len(discovers) <= 3
    /\ adapter = "failed" <=>
        (Len(discovers) = 3 /\ \A i \in 1..3 : discovers[i] = DeviceException)
    /\ adapter = "ready" <=>
        (Len(discovers) >= 1 /\ discovers[Len(discovers)] = "ok")
    /\ \A i \in 1..(Len(discovers) - 1) : discovers[i] = DeviceException

\* C9 witness: the third attempt failed too and construction failed.
C9_Witness ==
    adapter = "failed" /\ Len(discovers) = 3

TerminalFormats ==
    {"State: {}", "Vacuum cleaner goes back to the dock...", "Start cleaning {}...",
     "Canceled...", "Error"}

\* C11: a message that triggers a terminating transition (Status or Home in
\* MAIN_MENU, a configured zone in SELECT_ZONE, cancel) is answered with one
\* of the terminal replies, which removes the menu, and the session ends.
C11_TerminalReplyAlwaysSent ==
    (lastTurn.user \in Users /\ lastTurn.handler \in {"status", "home", "cleaning", "cancel"}) =>
        /\ lastTurn.reply.fmt \in TerminalFormats
        /\ lastTurn.markup = "remove"
        /\ conv[lastTurn.user] = NoConv

\* C12: the set_fan_speed command sent for a fan level name carries the
\* documented number of that name: Quiet 38, Balanced 60, Turbo 75, Max 100,
\* Mob 105.
C12_FanLevelParameter ==
    \A u \in Users :
        job[u].cmd = "set_fan_speed" =>
            /\ job[u].text \in {Quiet, Balanced, Turbo, Max, Mob}
            /\ job[u].text = Quiet => job[u].arg = << <<38>> >>
            /\ job[u].text = Balanced => job[u].arg = << <<60>> >>
            /\ job[u].text = Turbo => job[u].arg = << <<75>> >>
            /\ job[u].text = Max => job[u].arg = << <<100>> >>
            /\ job[u].text = Mob => job[u].arg = << <<105>> >>

\* C12 witness: "Mob" was chosen and set_fan_speed(105) is on its way.
C12_Witness ==
    \E u \in Users :
        /\ job[u].cmd = "set_fan_speed"
        /\ job[u].text = Mob
        /\ job[u].arg = << <<105>> >>
        /\ trace = <<[cmd |-> "set_fan_speed", user |-> u]>>

\* C13: the error handler answers with the fixed diagnostic, made of the
\* update and the error, and presents the main menu; it changes no session
\* state and sends nothing to the device.
C13_ErrorHandlerOnlyReplies ==
    [][(lastTurn' # lastTurn /\ lastTurn'.raised /\ lastTurn'.reply # NoReply) =>
            /\ lastTurn'.reply.fmt = "Update \"{}\" caused error \"{}\"!"
            /\ Len(lastTurn'.reply.args) = 2
            /\ lastTurn'.reply.args[1] = lastTurn'.text
            /\ lastTurn'.reply.args[2] \in {ErrorText, KeyErrorText}
            /\ lastTurn'.markup = "main_buttons"
            /\ conv' = conv
            /\ trace' = trace]_vars

\* C13 witness: the error handler presented the main menu to a session that
\* is stored as SELECT_ZONE.
C13_Witness ==
    /\ lastTurn.user \in Users
    /\ lastTurn.raised
    /\ lastTurn.markup = "main_buttons"
    /\ conv[lastTurn.user] = SELECT_ZONE

\* C14: the label of every configured zone, once accepted in SELECT_ZONE,
\* is resolved to the key it was made from: the lookup does not fail and
\* start_zone_cleaning gets the rectangles of that zone.
C14_ZoneLabelResolves ==
    /\ \A u \in Users :
        job[u].handler = "cleaning" =>
            \E k \in DOMAIN zones : title(k) = job[u].text /\ job[u].arg = zones[k]
    /\ (lastTurn.handler = "cleaning" /\ lastTurn.raised) => lastTurn.ops # <<>>

\* C15: when the pause of start_zone_cleaning is acknowledged, with the
\* success token or not, the zoned_clean is sent next, and the call returns
\* success exactly when the zoned_clean is acknowledged with the success
\* token; the reply of the turn follows that result alone.
C15_PauseResultNotSurfaced ==
    [][\A u \in Users :
        /\ (job[u].handler = "cleaning" /\ job[u].cmd = "pause" /\ job'[u] # job[u]) =>
            IF job'[u].handler = "idle"
            THEN lastTurn'.ops = <<[op |-> "pause", answer |-> DeviceException,
                                    raised |-> TRUE, value |-> FALSE]>>
            ELSE /\ job'[u].cmd = "zoned_clean"
                 /\ job'[u].ops[1].answer \in {"ok", "error"}
                 /\ trace' = Append(trace, [cmd |-> "zoned_clean", user |-> u])
        /\ (job[u].handler = "cleaning" /\ job[u].cmd = "zoned_clean" /\ job'[u] # job[u]) =>
            /\ Len(lastTurn'.ops) = 2
            /\ lastTurn'.ops[2].op = "start_zone_cleaning"
            /\ lastTurn'.ops[2].value <=> (lastTurn'.ops[2].answer = "ok")
            /\ lastTurn'.ops[2].answer = "ok" =>
                lastTurn'.reply = Reply("Start cleaning {}...", <<job[u].text>>)
            /\ lastTurn'.ops[2].answer = "error" =>
                lastTurn'.reply = Reply("Error", <<>>)]_vars

\* C15 witness: the pause was not acknowledged as successful, the zoned
\* clean was, and the turn reported the start of the cleaning.
C15_Witness ==
    /\ lastTurn.handler = "cleaning"
    /\ Len(lastTurn.ops) = 2
    /\ lastTurn.ops[1].answer = "error"
    /\ lastTurn.ops[2].answer = "ok"
    /\ lastTurn.ops[2].value
    /\ lastTurn.reply.fmt = "Start cleaning {}..."

\* the operations of the adapter that the handlers call
AdapterOps == {"status", "home", "set_fan_level", "start_zone_cleaning"}

\* C16: a message causes at most one adapter operation; a command reaches
\* the device only while a handler is handling a message; and an operation
\* that failed is not issued again in the same session.  An operation is
\* offered in one state only and sessions only move forward (C10), so the
\* operation can be issued again exactly when the session is still in the
\* state the operation was issued from.
C16_NoRetryNoBackground ==
    [][/\ Cardinality({i \in 1..Len(lastTurn'.ops) :
                            lastTurn'.ops[i].op \in AdapterOps}) <= 1
       /\ trace' # trace =>
            \E u \in Users :
                job'[u].handler # "idle" /\ trace'[Len(trace')].user = u
       /\ \A u \in Users :
            (/\ lastTurn' # lastTurn
             /\ lastTurn'.user = u
             /\ lastTurn'.ops # <<>>
             /\ LET o == lastTurn'.ops[Len(lastTurn'.ops)] IN o.raised \/ ~o.value) =>
                conv'[u] # conv[u]]_vars

\* C18: with the turns of two admins interleaved, when a session issues
\* StartZoneCleaning the fan speed the shared device holds is not one that
\* the session of another user set in between.
C18_CleaningUsesOwnFanLevel ==
    \A u \in Users : job[u].handler = "cleaning" => fanSetBy \notin Users \ {u}

\* C17: the simulator is constructed without a failure path and sends
\* nothing; each of its operations returns success whatever the argument,
\* so against the simulator no adapter operation of a turn fails and no
\* turn is answered "Error".  (Checked under SpecSim.)
C17_SimulatorAlwaysSucceeds ==
    /\ adapter = "ready"
    /\ trace = <<>>
    /\ XVCHelperSimulator_pause.value /\ ~XVCHelperSimulator_pause.raised
    /\ \A i \in 1..Len(lastTurn.ops) :
        lastTurn.ops[i].value /\ ~lastTurn.ops[i].raised
    /\ lastTurn.reply # ErrorReply

C17_Witness ==
    /\ lastTurn.handler = "home"
    /\ lastTurn.ops = <<[op |-> "home", answer |-> "none", raised |-> FALSE, value |-> TRUE]>>
    /\ lastTurn.reply = Reply("Vacuum cleaner goes back to the dock...", <<>>)
    /\ conv[lastTurn.user] = NoConv

\* C19: /start from an admin whose session is in MAIN_MENU, SELECT_FAN or
\* SELECT_ZONE is taken by no handler: no state changes, nothing is replied
\* and nothing is sent to the device.  A session leaves a non-terminal
\* state only by a menu input its state matches or by /cancel, and a
\* session enters MAIN_MENU only from no session, by /start of an admin.
C19_StartDoesNotReenter ==
    [][\A u \in Users :
        /\ (/\ u \in Admins
            /\ conv[u] \in NonTerminal
            /\ lastTurn' # lastTurn
            /\ lastTurn'.user = u
            /\ lastTurn'.text = StartCommand) =>
                /\ conv' = conv /\ trace' = trace /\ job' = job
                /\ lastTurn'.handler = "none"
                /\ lastTurn'.reply = NoReply
        /\ (conv[u] \in NonTerminal /\ conv'[u] # conv[u]) =>
                /\ lastTurn'.user = u
                /\ \/ lastTurn'.handler = "cancel" /\ lastTurn'.text = CancelCommand
                   \/ /\ lastTurn'.handler \in {"status", "home", "select_fan",
                                                "select_zone", "cleaning"}
                      /\ lastTurn'.text \in {Status, Home, ZoneCleaning}
                                            \cup FanNames \cup ZoneLabels
        /\ (conv'[u] = MAIN_MENU /\ conv[u] # MAIN_MENU) =>
                /\ conv[u] = NoConv
                /\ u \in Admins
                /\ lastTurn'.user = u
                /\ lastTurn'.handler = "start"
                /\ lastTurn'.text = StartCommand]_vars

\* C19 witness: an admin sent /start in SELECT_ZONE and nothing took it.
C19_Witness ==
    /\ lastTurn.user \in Admins
    /\ lastTurn.text = StartCommand
    /\ lastTurn.handler = "none"
    /\ lastTurn.reply = NoReply
    /\ conv[lastTurn.user] = SELECT_ZONE

====
